---------------------------- MODULE Spec2Model ----------------------------
(***************************************************************************)
(* Model of the lab-inventory dashboard front end (src/sw.js): the four    *)
(* Datasets and their reload (loadAllData / apiGet / toObjects), the form  *)
(* submit handlers, the renderers and the CSV export.                      *)
(*                                                                         *)
(* JavaScript values are modelled as follows.                              *)
(*   string   a sequence of one-character strings, <<"a", "b">>            *)
(*   cell     [t |-> "str", s |-> string, n |-> 0]   a JSON string         *)
(*            [t |-> "num", s |-> <<>>,   n |-> k]   a JSON number k >= 0  *)
(*   object   a sequence of [k |-> string, v |-> cell] in own-key order    *)
(*   array    [kind |-> "rows", items |-> sequence of sequences of cells]  *)
(*            [kind |-> "objs", items |-> sequence of objects]             *)
(***************************************************************************)
EXTENDS Integers, Sequences, FiniteSets, TLC

VARIABLES
    data,       \* the four module-level Datasets (sw.js line 37)
    tasks,      \* the running event handlers, one record per handler instance
    dom,        \* what each table, chart and selector currently shows
    lastResp,   \* per Dataset, the body of the GET response that resolved last
    lastRead,   \* the Dataset value the most recent renderer or export read
    fnIn,       \* input of the function under test (function specifications)
    fnOut       \* its result, or Pending

vars == <<data, tasks, dom, lastResp, lastRead, fnIn, fnOut>>
appVars == <<data, tasks, dom, lastResp, lastRead>>
fnVars == <<fnIn, fnOut>>

---------------------------------------------------------------------------
(* Bounds of the model.                                                    *)

MaxCols == 2
MaxRows == 2

---------------------------------------------------------------------------
(* Strings and cells.                                                      *)

Str(s) == [t |-> "str", s |-> s, n |-> 0]
Num(k) == [t |-> "num", s |-> <<>>, n |-> k]
EmptyStr == Str(<<>>)

Digits == <<"0", "1", "2", "3", "4", "5", "6", "7", "8", "9">>

IsDigit(c) == \E i \in 1..10 : Digits[i] = c

DigitVal(c) == (CHOOSE i \in 1..10 : Digits[i] = c) - 1

RECURSIVE NatToStr(_)
NatToStr(k) ==
    IF k < 10 THEN <<Digits[k + 1]>>
    ELSE NatToStr(k \div 10) \o <<Digits[(k % 10) + 1]>>

RECURSIVE StrToNat(_)
StrToNat(s) ==
    IF s = <<>> THEN 0
    ELSE 10 * StrToNat(SubSeq(s, 1, Len(s) - 1)) + DigitVal(s[Len(s)])

\* String(v)
String(v) == IF v.t = "str" THEN v.s ELSE NatToStr(v.n)

\* v || '' : the falsy cells are the empty string and the number 0
Truthy(v) == IF v.t = "str" THEN v.s # <<>> ELSE v.n # 0

IsSpace(c) == c = " "

RECURSIVE TrimLeft(_)
TrimLeft(s) ==
    IF s # <<>> /\ IsSpace(s[1]) THEN TrimLeft(Tail(s)) ELSE s

RECURSIVE TrimRight(_)
TrimRight(s) ==
    IF s # <<>> /\ IsSpace(s[Len(s)])
    THEN TrimRight(SubSeq(s, 1, Len(s) - 1)) ELSE s

\* String.prototype.trim
Trim(s) == TrimRight(TrimLeft(s))

---------------------------------------------------------------------------
(* Objects: own string keys are kept in the order JavaScript enumerates    *)
(* them, canonical array indices ("0", "7", "12") first in ascending       *)
(* numeric order, then the other keys in insertion order.                  *)

IsIndexKey(k) ==
    /\ Len(k) >= 1
    /\ \A i \in 1..Len(k) : IsDigit(k[i])
    /\ (Len(k) > 1 => k[1] # "0")

HasKey(obj, k) == \E i \in 1..Len(obj) : obj[i].k = k

KeyPos(obj, k) == CHOOSE i \in 1..Len(obj) : obj[i].k = k

\* Where a new key goes.
InsertPos(obj, k) ==
    IF IsIndexKey(k)
    THEN 1 + Cardinality({i \in 1..Len(obj) :
                 IsIndexKey(obj[i].k) /\ StrToNat(obj[i].k) < StrToNat(k)})
    ELSE Len(obj) + 1

\* obj[k] = v
SetKey(obj, k, v) ==
    IF HasKey(obj, k)
    THEN [obj EXCEPT ![KeyPos(obj, k)] = [k |-> k, v |-> v]]
    ELSE LET p == InsertPos(obj, k)
         IN SubSeq(obj, 1, p - 1) \o <<[k |-> k, v |-> v]>>
                \o SubSeq(obj, p, Len(obj))

\* Object.keys(obj)
Keys(obj) == [i \in 1..Len(obj) |-> obj[i].k]

\* obj[k], Undefined when obj has no such key
Undefined == [t |-> "undefined", s |-> <<>>, n |-> 0]
GetKey(obj, k) == IF HasKey(obj, k) THEN obj[KeyPos(obj, k)].v ELSE Undefined

---------------------------------------------------------------------------
(* Arrays held in a Dataset variable.                                      *)

\* [] is one value, whichever way it was produced
EmptyArr == [kind |-> "objs", items |-> <<>>]
RowsArr(items) == IF items = <<>> THEN EmptyArr ELSE [kind |-> "rows", items |-> items]
ObjsArr(items) == [kind |-> "objs", items |-> items]

Returned(a) == [threw |-> FALSE, val |-> a]
Threw == [threw |-> TRUE, val |-> EmptyArr]

\* the object built from one row by the inner loop of toObjects
RECURSIVE RowObject(_, _, _)
RowObject(headers, row, j) ==
    IF j = 0 THEN <<>>
    ELSE SetKey(RowObject(headers, row, j - 1), headers[j],
                IF j <= Len(row) THEN row[j] ELSE EmptyStr)

\* faulty variant of toObjects: the header row is converted like a data row
toObjects_HeaderAsRecord(rows) ==
    IF Len(rows.items) < 1 THEN Returned(EmptyArr)
    ELSE IF rows.kind # "rows" THEN Threw
    ELSE LET headers == [j \in 1..Len(rows.items[1]) |->
                            Trim(String(rows.items[1][j]))]
         IN Returned(ObjsArr([i \in 1..Len(rows.items) |->
                RowObject(headers, rows.items[i], Len(headers))]))

\* toObjects(rows).  rows[0].map throws a TypeError when rows[0] is a
\* record (an already converted array) and not an array of cells.
toObjects(rows) ==
    IF Len(rows.items) < 1 THEN Returned(EmptyArr)
    ELSE IF rows.kind # "rows" THEN Threw
    ELSE LET headers == [j \in 1..Len(rows.items[1]) |->
                            Trim(String(rows.items[1][j]))]
         IN Returned(ObjsArr([i \in 1..(Len(rows.items) - 1) |->
                RowObject(headers, rows.items[i + 1], Len(headers))]))

---------------------------------------------------------------------------
(* Function specifications: the input is drawn in Init, one action applies *)
(* the function.                                                           *)

Pending == [threw |-> FALSE, val |-> [kind |-> "pending", items |-> <<>>]]

SeqsUpTo(S, n) == UNION {[1..m -> S] : m \in 0..n}

HeaderCells == {Str(<<"a">>), Str(<<" ", "a">>), Str(<<"b">>)}
DataCells == {Str(<<"x">>), Num(0)}

Tables == SeqsUpTo(SeqsUpTo(DataCells, MaxCols), MaxRows)

Sheets == {<<>>} \cup {<<h>> \o r : h \in SeqsUpTo(HeaderCells, MaxCols), r \in Tables}

\* the page before any event: the function specifications leave it so
AppIdle ==
    /\ data = <<>>
    /\ tasks = <<>>
    /\ dom = <<>>
    /\ lastResp = <<>>
    /\ lastRead = <<>>

InitToObjects ==
    /\ AppIdle
    /\ fnIn \in Sheets
    /\ fnOut = Pending

ApplyToObjects ==
    /\ fnOut = Pending
    /\ fnOut' = toObjects(RowsArr(fnIn))
    /\ UNCHANGED <<fnIn, appVars>>

NextToObjects == ApplyToObjects

SpecToObjects == InitToObjects /\ [][NextToObjects]_vars


(* C5 (as amended): for a sheet with header row H and data rows R,         *)
(* toObjects returns exactly Len(R) records in row order; each record has  *)
(* one key per distinct trimmed header string of H (Len(H) keys when the   *)
(* trimmed headers are pairwise distinct), and the key's value is the cell *)
(* of the last column carrying that header, or the empty string when the   *)
(* row has no such cell; an empty or header-only sheet gives no record.    *)
HeaderNames(H) == {Trim(String(H[j])) : j \in 1..Len(H)}

LastCol(H, k) ==
    CHOOSE j \in 1..Len(H) :
        /\ Trim(String(H[j])) = k
        /\ \A m \in (j + 1)..Len(H) : Trim(String(H[m])) # k

C5_ToObjectsShape ==
    fnOut # Pending =>
        /\ ~fnOut.threw
        /\ fnOut.val.kind = "objs"
        /\ IF Len(fnIn) <= 1 THEN fnOut.val.items = <<>>
           ELSE LET H == fnIn[1]
                    R == Tail(fnIn)
                    out == fnOut.val.items
                IN /\ Len(out) = Len(R)
                   /\ \A i \in 1..Len(R) :
                        /\ Len(out[i]) = Cardinality(HeaderNames(H))
                        /\ {out[i][p].k : p \in 1..Len(out[i])} = HeaderNames(H)
                        /\ \A k \in HeaderNames(H) :
                             GetKey(out[i], k) =
                                 IF LastCol(H, k) <= Len(R[i])
                                 THEN R[i][LastCol(H, k)] ELSE EmptyStr

\* C5 witness: two data rows converted, the first shorter than a header row
\* whose two cells trim to the same name.
C5_Witness ==
    /\ fnOut # Pending
    /\ Len(fnIn) = 3
    /\ Len(fnIn[1]) = 2
    /\ Cardinality(HeaderNames(fnIn[1])) = 1
    /\ Len(fnIn[2]) = 1
    /\ Len(fnOut.val.items) = 2

\* C5 as stated: every record has exactly Len(H) keys.
C5_Original ==
    (fnOut # Pending /\ Len(fnIn) >= 1) =>
        /\ Len(fnOut.val.items) = Len(fnIn) - 1
        /\ \A i \in 1..Len(fnOut.val.items) :
             Len(fnOut.val.items[i]) = Len(fnIn[1])

---------------------------------------------------------------------------
(* CSV export (downloadCsvFromArray) and the reader of CSV text.           *)

Quote == "\""
Comma == ","
Newline == "\n"

RECURSIVE Join(_, _)
\* Array.prototype.join
Join(parts, sep) ==
    IF parts = <<>> THEN <<>>
    ELSE IF Len(parts) = 1 THEN parts[1]
    ELSE parts[1] \o sep \o Join(Tail(parts), sep)

RECURSIVE DoubleQuotes(_)
\* s.replace(/"/g, '""')
DoubleQuotes(s) ==
    IF s = <<>> THEN <<>>
    ELSE (IF s[1] = Quote THEN <<Quote, Quote>> ELSE <<s[1]>>)
             \o DoubleQuotes(Tail(s))

\* `"${String(r[h]||'').replace(/"/g,'""')}"`
CsvField(r, h) ==
    LET v == GetKey(r, h)
        txt == IF v.t # "undefined" /\ Truthy(v) THEN String(v) ELSE <<>>
    IN <<Quote>> \o DoubleQuotes(txt) \o <<Quote>>

\* the text downloadCsvFromArray hands to the Blob; arr is not empty
CsvText(arr) ==
    LET headers == Keys(arr[1])
        line(r) == Join([j \in 1..Len(headers) |-> CsvField(r, headers[j])],
                        <<Comma>>)
    IN Join(<<Join(headers, <<Comma>>)>> \o [i \in 1..Len(arr) |-> line(arr[i])],
            <<Newline>>)

\* downloadCsvFromArray(arr, filename): the alert, or the text downloaded
downloadCsvFromArray(arr) ==
    IF Len(arr) = 0 THEN [alert |-> TRUE, csv |-> <<>>]
    ELSE [alert |-> FALSE, csv |-> CsvText(arr)]

(* A reader of CSV text (RFC 4180): fields separated by commas, records by *)
(* newlines; a field that starts with a double quote runs to the closing   *)
(* double quote, a doubled double quote inside it standing for one.        *)
(* mode: "start" of a field, "plain" inside an unquoted field, "quoted"    *)
(* inside a quoted field, "closed" after the closing quote.                *)
RECURSIVE ParseFrom(_, _, _, _, _, _)
ParseFrom(text, i, mode, field, row, rows) ==
    IF i > Len(text)
    THEN IF mode = "start" /\ row = <<>> THEN rows
         ELSE Append(rows, Append(row, field))
    ELSE LET c == text[i] IN
        IF mode = "quoted"
        THEN IF c = Quote
             THEN IF i < Len(text) /\ text[i + 1] = Quote
                  THEN ParseFrom(text, i + 2, "quoted", Append(field, Quote), row, rows)
                  ELSE ParseFrom(text, i + 1, "closed", field, row, rows)
             ELSE ParseFrom(text, i + 1, "quoted", Append(field, c), row, rows)
        ELSE IF c = Comma
             THEN ParseFrom(text, i + 1, "start", <<>>, Append(row, field), rows)
        ELSE IF c = Newline
             THEN ParseFrom(text, i + 1, "start", <<>>, <<>>,
                            Append(rows, Append(row, field)))
        ELSE IF c = Quote /\ mode = "start"
             THEN ParseFrom(text, i + 1, "quoted", <<>>, row, rows)
        ELSE ParseFrom(text, i + 1, "plain", Append(field, c), row, rows)

ParseCsv(text) == ParseFrom(text, 1, "start", <<>>, <<>>, <<>>)

\* What the export of arr is meant to read back as: the first record's keys,
\* then per record the string form of the value of each key.
CsvExpected(arr) ==
    LET headers == Keys(arr[1])
    IN <<headers>> \o [i \in 1..Len(arr) |->
            [j \in 1..Len(headers) |-> String(GetKey(arr[i], headers[j]))]]

CsvHeaderCells == {Str(<<"a">>), Str(<<"b", ",">>), Num(1)}
CsvCells == {Str(<<"x">>), Str(<<Quote, Comma>>), Str(<<Newline>>), Num(0), Num(12)}

\* sheets with at least one column
CsvSheets ==
    {<<h>> \o r : h \in SeqsUpTo(CsvHeaderCells, MaxCols) \ {<<>>},
                  r \in SeqsUpTo(SeqsUpTo(CsvCells, MaxCols), MaxRows)}

\* The collections exported are Datasets, that is results of toObjects.
InitCsv ==
    /\ AppIdle
    /\ fnIn \in {toObjects(RowsArr(s)).val.items : s \in CsvSheets}
    /\ fnOut = Pending

ApplyCsv ==
    /\ fnOut = Pending
    /\ fnOut' = downloadCsvFromArray(fnIn)
    /\ UNCHANGED <<fnIn, appVars>>

NextCsv == ApplyCsv

SpecCsv == InitCsv /\ [][NextCsv]_vars

\* C8 as stated: the exported text of a non-empty collection, read back as
\* CSV with a header row, gives the first record's keys in order and every
\* record's field values as strings.
C8_CsvRoundTrip ==
    (fnOut # Pending /\ Len(fnIn) > 0) =>
        /\ ~fnOut.alert
        /\ ParseCsv(fnOut.csv) = CsvExpected(fnIn)

---------------------------------------------------------------------------
(* drawCharts, the bar chart: repairs per system, the ten largest.         *)

TopN == 10

MaxSystems == 11
MaxRepeats == 1
MaxOther == 1

KeySystemNumber == <<"S","y","s","t","e","m"," ","N","u","m","b","e","r">>
KeySystemNumberAlt == <<"s","y","s","t","e","m","N","u","m","b","e","r">>
KeyStatus == <<"S","t","a","t","u","s">>
LabelUnknown == <<"U","n","k","n","o","w","n">>
LabelNone == <<"N","o","n","e">>

IsTruthy(v) == v.t # "undefined" /\ Truthy(v)

\* r['System Number'] || r['systemNumber'] || 'Unknown', as the property
\* key it becomes in counts
SystemOf(r) ==
    IF IsTruthy(GetKey(r, KeySystemNumber))
    THEN String(GetKey(r, KeySystemNumber))
    ELSE IF IsTruthy(GetKey(r, KeySystemNumberAlt))
    THEN String(GetKey(r, KeySystemNumberAlt))
    ELSE LabelUnknown

\* counts after the forEach over the first n records
RECURSIVE CountSystems(_, _)
CountSystems(repairs, n) ==
    IF n = 0 THEN <<>>
    ELSE LET counts == CountSystems(repairs, n - 1)
             s == SystemOf(repairs[n])
             old == GetKey(counts, s)
         IN SetKey(counts, s, Num((IF IsTruthy(old) THEN old.n ELSE 0) + 1))

\* faulty variant of SortByCount: the keys are left in enumeration order
SortByCount_Unsorted(keys, counts) == keys

\* keys.sort((a,b) => counts[b] - counts[a]); Array.prototype.sort is stable
RECURSIVE SortByCount(_, _)
SortByCount(keys, counts) ==
    IF keys = <<>> THEN <<>>
    ELSE LET rest == SortByCount(SubSeq(keys, 1, Len(keys) - 1), counts)
             k == keys[Len(keys)]
             p == Cardinality({i \in 1..Len(rest) :
                      GetKey(counts, rest[i]).n >= GetKey(counts, k).n})
         IN SubSeq(rest, 1, p) \o <<k>> \o SubSeq(rest, p + 1, Len(rest))

\* keys.slice(0, n)
Slice(keys, n) == SubSeq(keys, 1, IF Len(keys) < n THEN Len(keys) ELSE n)

\* the rows handed to arrayToDataTable for the bar chart
BarRows(repairs) ==
    LET counts == CountSystems(repairs, Len(repairs))
        top == Slice(SortByCount(Keys(counts), counts), TopN)
        rows == <<[label |-> "System", count |-> "Repairs"]>> \o
                [i \in 1..Len(top) |->
                    [label |-> top[i], count |-> GetKey(counts, top[i]).n]]
    IN IF Len(rows) = 1
       THEN Append(rows, [label |-> LabelNone, count |-> 0])
       ELSE rows

\* System identifiers of the sheet: numbers and names.
SystemCell(i) == IF i % 2 = 0 THEN Num(i) ELSE Str(<<"P", "C">> \o NatToStr(i))

RepairWith(i) == <<[k |-> KeySystemNumber, v |-> SystemCell(i)]>>
RepairWithAlt(i) ==
    <<[k |-> KeySystemNumber, v |-> EmptyStr],
      [k |-> KeySystemNumberAlt, v |-> SystemCell(i)]>>
RepairWithout == <<[k |-> KeyStatus, v |-> Str(<<"x">>)]>>

SystemsIn(repairs) == {SystemOf(repairs[i]) : i \in 1..Len(repairs)}
RepeatsIn(repairs) == Len(repairs) - Cardinality(SystemsIn(repairs))
OthersIn(repairs) ==
    Cardinality({i \in 1..Len(repairs) :
        ~IsTruthy(GetKey(repairs[i], KeySystemNumber))})

InitBar ==
    /\ AppIdle
    /\ fnIn = <<>>
    /\ fnOut = Pending

\* one more record of the Repairs Dataset: a repair of a system not seen yet
RepairOfNewSystem ==
    /\ fnOut = Pending
    /\ Cardinality(SystemsIn(fnIn)) < MaxSystems
    /\ fnIn' = Append(fnIn, RepairWith(Len(fnIn) + 1))
    /\ UNCHANGED <<fnOut, appVars>>

\* a further repair of the system of the latest record
RepairOfSameSystem ==
    /\ fnOut = Pending
    /\ fnIn # <<>>
    /\ RepeatsIn(fnIn) < MaxRepeats
    /\ fnIn' = Append(fnIn, fnIn[Len(fnIn)])
    /\ UNCHANGED <<fnOut, appVars>>

\* a record that names its system under 'systemNumber', or not at all
RepairOtherwiseKeyed ==
    /\ fnOut = Pending
    /\ OthersIn(fnIn) < MaxOther
    /\ Cardinality(SystemsIn(fnIn)) < MaxSystems
    /\ \E r \in {RepairWithAlt(Len(fnIn) + 1), RepairWithout} :
         fnIn' = Append(fnIn, r)
    /\ UNCHANGED <<fnOut, appVars>>

ApplyBar ==
    /\ fnOut = Pending
    /\ fnOut' = [rows |-> BarRows(fnIn)]
    /\ UNCHANGED <<fnIn, appVars>>

NextBar ==
    \/ RepairOfNewSystem
    \/ RepairOfSameSystem
    \/ RepairOtherwiseKeyed
    \/ ApplyBar

SpecBar == InitBar /\ [][NextBar]_vars

GroupSize(repairs, g) ==
    Cardinality({i \in 1..Len(repairs) : SystemOf(repairs[i]) = g})

\* C9: the bar chart's data rows are distinct groups of the Repairs records
\* by system identifier, each with the number of records of its group, in
\* non-increasing order of count, the TopN largest when there are more; with
\* no Repairs record there is exactly one placeholder row, of count zero.
C9_BarChart ==
    fnOut # Pending =>
        LET rows == Tail(fnOut.rows)
            groups == SystemsIn(fnIn)
            shown == {rows[i].label : i \in 1..Len(rows)}
        IN IF fnIn = <<>>
           THEN rows = <<[label |-> LabelNone, count |-> 0]>>
           ELSE /\ Len(rows) = (IF Cardinality(groups) < TopN
                                THEN Cardinality(groups) ELSE TopN)
                /\ Cardinality(shown) = Len(rows)
                /\ \A i \in 1..Len(rows) :
                     /\ rows[i].label \in groups
                     /\ rows[i].count = GroupSize(fnIn, rows[i].label)
                /\ \A i \in 1..Len(rows) : \A j \in (i + 1)..Len(rows) :
                     rows[i].count >= rows[j].count
                /\ \A g \in groups \ shown : \A i \in 1..Len(rows) :
                     rows[i].count >= GroupSize(fnIn, g)

\* C9 witness: more than TopN groups, one of them with several records that
\* was not among the first TopN met, one keyed 'systemNumber', drawn.
C9_Witness ==
    /\ fnOut # Pending
    /\ Cardinality(SystemsIn(fnIn)) > TopN
    /\ Len(fnIn) > TopN + 1
    /\ GroupSize(fnIn, SystemOf(fnIn[Len(fnIn)])) > 1
    /\ \E i \in 1..Len(fnIn) : HasKey(fnIn[i], KeySystemNumberAlt)
    /\ fnOut.rows[2].label = SystemOf(fnIn[Len(fnIn)])

---------------------------------------------------------------------------
(* The page: Datasets, event handlers, renderers.                          *)

MaxTasks == 1
MaxOverlap == 2

\* the Datasets in the order loadAllData fetches them
Datasets == <<"inventoryData", "repairsData", "consumablesData", "issuedData">>
DatasetNames == {Datasets[i] : i \in 1..4}

Views == {"inventoryTableWrap", "repairsTableWrap", "consumableTableWrap",
          "issuedTableWrap", "chart-pie", "chart-bar", "issueSelectItem", "cards"}

\* the Dataset each view is built from
ViewSource(v) ==
    CASE v = "inventoryTableWrap" -> "inventoryData"
      [] v = "repairsTableWrap" -> "repairsData"
      [] v = "consumableTableWrap" -> "consumablesData"
      [] v = "issuedTableWrap" -> "issuedData"
      [] v = "chart-pie" -> "inventoryData"
      [] v = "chart-bar" -> "repairsData"
      [] v = "issueSelectItem" -> "consumablesData"

\* the views each render function rewrites
RenderTargets(f) ==
    CASE f = "renderInventoryTable" -> {"inventoryTableWrap"}
      [] f = "renderRepairsTable" -> {"repairsTableWrap"}
      [] f = "renderConsumablesTable" -> {"consumableTableWrap"}
      [] f = "renderIssuedTable" -> {"issuedTableWrap"}
      [] f = "drawCharts" -> {"chart-pie", "chart-bar"}
      [] f = "populateIssueSelect" -> {"issueSelectItem"}
      [] f = "updateDashboardCards" -> {"cards"}

\* A view's content is identified by the Dataset value it was built from
\* (the five dashboard cards, by the four of them).
ViewOf(v, d) == IF v = "cards" THEN d ELSE d[ViewSource(v)]

Render(f, d, shown) ==
    [v \in Views |-> IF v \in RenderTargets(f) THEN ViewOf(v, d) ELSE shown[v]]

RECURSIVE RenderAll(_, _, _)
RenderAll(fs, d, shown) ==
    IF fs = <<>> THEN shown
    ELSE RenderAll(Tail(fs), d, Render(fs[1], d, shown))

---------------------------------------------------------------------------
(* Numbers: Number(text) for the texts of the quantity field.              *)

NaN == [nan |-> TRUE, n |-> 0]
JsNum(k) == [nan |-> FALSE, n |-> k]

AllDigits(s) == s # <<>> /\ \A i \in 1..Len(s) : IsDigit(s[i])

\* Number(s) for a string s: blank is 0, a decimal integer literal its value,
\* any other text of the model NaN
StrNumber(s) ==
    LET u == Trim(s)
    IN IF u = <<>> THEN JsNum(0)
       ELSE IF AllDigits(u) THEN JsNum(StrToNat(u))
       ELSE IF u[1] = "-" /\ AllDigits(Tail(u)) THEN JsNum(0 - StrToNat(Tail(u)))
       ELSE NaN

\* Number(obj.qty || 0)
QtyOf(text) == IF text = <<>> THEN JsNum(0) ELSE StrNumber(text)

\* faulty variant of QtyRejected: only negative quantities are rejected
QtyRejected_Negative(q) == ~q.nan /\ q.n < 0

\* obj.qty <= 0 ; every comparison with NaN is false
QtyRejected(q) == ~q.nan /\ q.n <= 0

QtyTexts == {<<>>, <<" ">>, <<"0">>, <<"-", "2">>, <<"3">>, <<"a", "b", "c">>}

---------------------------------------------------------------------------
(* Handler instances.                                                       *)

Kinds == {"load", "addInventory", "bulkUpload", "addRepair", "addConsumable", "issue"}
FormKinds == {"addInventory", "addRepair", "addConsumable", "issue"}

IdleTask ==
    [kind |-> "none", pc |-> "idle", input |-> <<>>, qty |-> JsNum(0),
     get |-> 0, log |-> <<>>, err |-> "none", overlapped |-> FALSE]

\* faulty variant of AfterReload: the form is reset before the views are rendered
AfterReload_ResetFirst(kind) ==
    CASE kind = "load" -> <<"drawCharts", "renderInventoryTable", "renderRepairsTable",
                            "renderConsumablesTable", "renderIssuedTable">>
      [] kind = "addInventory" -> <<"reset", "renderInventoryTable">>
      [] kind = "bulkUpload" -> <<"renderInventoryTable">>
      [] kind = "addRepair" -> <<"reset", "renderRepairsTable", "renderInventoryTable",
                                 "drawCharts">>
      [] kind = "addConsumable" -> <<"reset", "renderConsumablesTable",
                                     "populateIssueSelect">>
      [] kind = "issue" -> <<"reset", "renderConsumablesTable", "renderIssuedTable",
                             "populateIssueSelect">>

\* the statements of each handler that follow its await loadAllData()
AfterReload(kind) ==
    CASE kind = "load" -> <<"drawCharts", "renderInventoryTable", "renderRepairsTable",
                            "renderConsumablesTable", "renderIssuedTable">>
      [] kind = "addInventory" -> <<"renderInventoryTable", "reset">>
      [] kind = "bulkUpload" -> <<"renderInventoryTable">>
      [] kind = "addRepair" -> <<"renderRepairsTable", "renderInventoryTable",
                                 "drawCharts", "reset">>
      [] kind = "addConsumable" -> <<"renderConsumablesTable", "populateIssueSelect",
                                     "reset">>
      [] kind = "issue" -> <<"renderConsumablesTable", "renderIssuedTable",
                             "populateIssueSelect", "reset">>

RenderCalls(steps) == SelectSeq(steps, LAMBDA f : f # "reset")

\* if(file){ if(file.type !== 'application/pdf'){ alert(...); return; } ... }
InvoiceRejected(file) == file \notin {"none", "pdf"}

Files == {"none", "pdf", "other"}
BulkFiles == {"none", "csv", "other"}

InitApp(n) ==
    /\ data = [d \in DatasetNames |-> EmptyArr]
    /\ tasks = [t \in 1..n |-> IdleTask]
    /\ dom = [v \in Views |-> ViewOf(v, [d \in DatasetNames |-> EmptyArr])]
    /\ lastResp = [d \in DatasetNames |-> [seen |-> FALSE, body |-> EmptyArr]]
    /\ lastRead = EmptyArr
    /\ fnIn = <<>>
    /\ fnOut = Pending

Loading(t) == tasks[t].pc = "loading"

\* Handler instances are numbered in the order their events arrive.
Free(t) == tasks[t].pc = "idle" /\ \A o \in 1..(t - 1) : tasks[o].pc # "idle"

\* the first statement of loadAllData: the GET of getInventory is sent
BeginReload(task, others) ==
    [task EXCEPT !.pc = "loading", !.get = 1, !.log = Append(@, "GET"),
                 !.overlapped = \E o \in others : tasks[o].pc = "loading"]

\* window 'load': loadAllData().then(...)
PageLoad(t) ==
    /\ Free(t)
    /\ \A o \in DOMAIN tasks : tasks[o].kind # "load"
    /\ tasks' = [tasks EXCEPT ![t] =
                    BeginReload([@ EXCEPT !.kind = "load"], DOMAIN tasks \ {t})]
    /\ UNCHANGED <<data, dom, lastResp, lastRead, fnVars>>

\* submit of form-add-inventory or form-add-repair, up to the first await
SubmitWithInvoice(t, kind, file) ==
    /\ Free(t)
    /\ tasks' = [tasks EXCEPT ![t] =
          IF InvoiceRejected(file)
          THEN [@ EXCEPT !.kind = kind, !.input = file, !.pc = "rejected",
                         !.log = <<"alert">>]
          ELSE IF file = "pdf"
          THEN [@ EXCEPT !.kind = kind, !.input = file, !.pc = "reading"]
          ELSE [@ EXCEPT !.kind = kind, !.input = file, !.pc = "posting",
                         !.log = <<"POST">>]]
    /\ UNCHANGED <<data, dom, lastResp, lastRead, fnVars>>

\* fileToBase64: reader.onload
FileRead(t) ==
    /\ tasks[t].pc = "reading"
    /\ tasks' = [tasks EXCEPT ![t].pc = "posting", ![t].log = <<"POST">>]
    /\ UNCHANGED <<data, dom, lastResp, lastRead, fnVars>>

\* fileToBase64: reader.onerror rejects, and the handler with it
FileReadError(t) ==
    /\ tasks[t].pc = "reading"
    /\ tasks' = [tasks EXCEPT ![t].pc = "failed", ![t].err = "FileReader"]
    /\ UNCHANGED <<data, dom, lastResp, lastRead, fnVars>>

\* submit of form-add-consumable
SubmitAddConsumable(t) ==
    /\ Free(t)
    /\ tasks' = [tasks EXCEPT ![t] =
          [@ EXCEPT !.kind = "addConsumable", !.pc = "posting", !.log = <<"POST">>]]
    /\ UNCHANGED <<data, dom, lastResp, lastRead, fnVars>>

\* submit of form-issue
SubmitIssue(t, text) ==
    /\ Free(t)
    /\ tasks' = [tasks EXCEPT ![t] =
          IF QtyRejected(QtyOf(text))
          THEN [@ EXCEPT !.kind = "issue", !.input = text, !.qty = QtyOf(text),
                         !.pc = "rejected", !.log = <<"alert">>]
          ELSE [@ EXCEPT !.kind = "issue", !.input = text, !.qty = QtyOf(text),
                         !.pc = "posting", !.log = <<"POST">>]]
    /\ UNCHANGED <<data, dom, lastResp, lastRead, fnVars>>

\* click of bulkUploadBtn
ClickBulkUpload(t, file) ==
    /\ Free(t)
    /\ tasks' = [tasks EXCEPT ![t] =
          IF file = "csv"
          THEN [@ EXCEPT !.kind = "bulkUpload", !.input = file, !.pc = "parsing"]
          ELSE [@ EXCEPT !.kind = "bulkUpload", !.input = file, !.pc = "rejected",
                         !.log = <<"alert">>]]
    /\ UNCHANGED <<data, dom, lastResp, lastRead, fnVars>>

\* Papa.parse calls complete: the rows are posted
ParseComplete(t) ==
    /\ tasks[t].pc = "parsing"
    /\ tasks' = [tasks EXCEPT ![t].pc = "posting", ![t].log = <<"POST">>]
    /\ UNCHANGED <<data, dom, lastResp, lastRead, fnVars>>

\* apiPost resolves: alert(res), then loadAllData() begins
PostResolves(t) ==
    /\ tasks[t].pc = "posting"
    /\ tasks' = [tasks EXCEPT ![t] =
          BeginReload([@ EXCEPT !.log = Append(@, "alert")], DOMAIN tasks \ {t})]
    /\ UNCHANGED <<data, dom, lastResp, lastRead, fnVars>>

\* the fetch of apiPost rejects: the handler ends with an unhandled rejection
PostFails(t) ==
    /\ tasks[t].pc = "posting"
    /\ tasks' = [tasks EXCEPT ![t].pc = "failed", ![t].err = "fetch POST"]
    /\ UNCHANGED <<data, dom, lastResp, lastRead, fnVars>>


\* the sheet the Gateway returns to a GET of handler instance t
SheetFor(t) == <<<<Str(<<"a">>)>>, <<Num(t)>>>>

GetOutcomes == {"ok", "badjson", "neterr"}

\* apiGet(action): fetch rejects on a network failure, outside the try;
\* JSON.parse failing is caught and gives []
apiGet(outcome, t) ==
    CASE outcome = "neterr" -> Threw
      [] outcome = "badjson" -> Returned(EmptyArr)
      [] outcome = "ok" -> Returned(RowsArr(SheetFor(t)))

\* the four toObjects assignments of loadAllData, from the i-th on
RECURSIVE NormalizeFrom(_, _)
NormalizeFrom(d, i) ==
    IF i > Len(Datasets) THEN [threw |-> FALSE, data |-> d]
    ELSE LET r == toObjects(d[Datasets[i]])
         IN IF r.threw THEN [threw |-> TRUE, data |-> d]
            ELSE NormalizeFrom([d EXCEPT ![Datasets[i]] = r.val], i + 1)

\* One await apiGet(...) of loadAllData returns to handler instance t.  After
\* the fourth, loadAllData converts the four Datasets and updates the cards,
\* and the handler's statements after its await run.
GetResolves(t, outcome) ==
    /\ Loading(t)
    /\ LET n == tasks[t].get
           name == Datasets[n]
           r == apiGet(outcome, t)
           d1 == [data EXCEPT ![name] = r.val]
           norm == NormalizeFrom(d1, 1)
           steps == AfterReload(tasks[t].kind)
       IN IF r.threw
          THEN /\ tasks' = [tasks EXCEPT ![t].pc = "failed", ![t].err = "fetch GET"]
               /\ UNCHANGED <<data, dom, lastResp>>
          ELSE /\ lastResp' = [lastResp EXCEPT ![name] = [seen |-> TRUE, body |-> r.val]]
               /\ IF n < Len(Datasets)
                  THEN /\ data' = d1
                       /\ tasks' = [tasks EXCEPT ![t].get = n + 1,
                                                 ![t].log = Append(@, "GET")]
                       /\ UNCHANGED dom
                  ELSE /\ data' = norm.data
                       /\ IF norm.threw
                          THEN /\ tasks' = [tasks EXCEPT ![t].pc = "failed",
                                                         ![t].err = "TypeError"]
                               /\ UNCHANGED dom
                          ELSE /\ tasks' = [tasks EXCEPT ![t].pc = "done",
                                      ![t].log = @ \o <<"reloaded">> \o steps]
                               /\ dom' = RenderAll(<<"updateDashboardCards">>
                                                     \o RenderCalls(steps),
                                                   norm.data, dom)
    /\ UNCHANGED <<lastRead, fnVars>>

\* input in globalSearch: both tables are rendered from the Datasets as they are
SearchInput ==
    /\ dom' = RenderAll(<<"renderInventoryTable", "renderRepairsTable">>, data, dom)
    /\ UNCHANGED <<data, tasks, lastResp, lastRead, fnVars>>

\* click of a download button: downloadCsvFromArray reads the Dataset
Download(name) ==
    /\ lastRead' = data[name]
    /\ UNCHANGED <<data, tasks, dom, lastResp, fnVars>>

\* The handlers that submit commands, and the page load.
Next ==
    \/ \E t \in DOMAIN tasks : PageLoad(t)
    \/ \E t \in DOMAIN tasks, kind \in {"addInventory", "addRepair"}, file \in Files :
          SubmitWithInvoice(t, kind, file)
    \/ \E t \in DOMAIN tasks : FileRead(t)
    \/ \E t \in DOMAIN tasks : FileReadError(t)
    \/ \E t \in DOMAIN tasks : SubmitAddConsumable(t)
    \/ \E t \in DOMAIN tasks, text \in QtyTexts : SubmitIssue(t, text)
    \/ \E t \in DOMAIN tasks, file \in BulkFiles : ClickBulkUpload(t, file)
    \/ \E t \in DOMAIN tasks : ParseComplete(t)
    \/ \E t \in DOMAIN tasks : PostResolves(t)
    \/ \E t \in DOMAIN tasks : PostFails(t)
    \/ \E t \in DOMAIN tasks, outcome \in GetOutcomes : GetResolves(t, outcome)

\* one handler instance at a time
Spec == InitApp(MaxTasks) /\ [][Next]_vars

\* Reloads that overlap, and the readers of the Datasets: the page load and a
\* submission reload while the user types in the search box or exports.
NextOverlap ==
    \/ \E t \in DOMAIN tasks : PageLoad(t)
    \/ \E t \in DOMAIN tasks : SubmitAddConsumable(t)
    \/ \E t \in DOMAIN tasks : PostResolves(t)
    \/ \E t \in DOMAIN tasks : PostFails(t)
    \/ \E t \in DOMAIN tasks, outcome \in GetOutcomes : GetResolves(t, outcome)
    \/ SearchInput
    \/ \E name \in DatasetNames : Download(name)

SpecOverlap == InitApp(MaxOverlap) /\ [][NextOverlap]_vars

---------------------------------------------------------------------------
(* Claims about the page.                                                  *)

Ended(t) == tasks[t].pc \in {"done", "failed"}

\* C1 as stated, for reloads none of whose requests failed on the network:
\* when reloads have overlapped and all have ended, each Dataset holds the
\* records converted from the response for it that resolved last.
C1_LastResponseWins ==
    ( /\ \A t \in DOMAIN tasks : Ended(t)
      /\ \E t \in DOMAIN tasks : tasks[t].overlapped
      /\ \A t \in DOMAIN tasks : tasks[t].err \notin {"fetch GET", "fetch POST"} )
    => \A name \in DatasetNames :
          /\ data[name].kind = "objs"
          /\ data[name].items = toObjects(lastResp[name].body).val.items

\* C2 as stated: whatever a renderer or an export has read is a converted
\* record sequence, never the header-plus-rows array of a reload under way.
C2_ReadersSeeRecords ==
    /\ \A v \in Views \ {"cards"} : dom[v].kind = "objs"
    /\ lastRead.kind = "objs"

\* C3 as stated: no reload ever fails because a GET failed; apiGet does not
\* throw to loadAllData.
C3_GetNeverThrows ==
    \A t \in DOMAIN tasks : tasks[t].err # "fetch GET"

\* the submissions the validation is to stop
InvalidSubmission(task) ==
    \/ task.kind \in {"addInventory", "addRepair"} /\ task.input = "other"
    \/ task.kind = "bulkUpload" /\ task.input \in {"none", "other"}
    \/ task.kind = "issue" /\ ~QtyOf(task.input).nan /\ QtyOf(task.input).n <= 0

\* C4: a submission with a non-PDF invoice, a zero or negative quantity, no
\* bulk file or a non-CSV bulk file alerts and ends there: it sends no POST
\* and no GET.
C4_ValidationAborts ==
    \A t \in DOMAIN tasks :
        InvalidSubmission(tasks[t]) =>
            /\ tasks[t].pc = "rejected"
            /\ tasks[t].log = <<"alert">>

\* C4 witness: a quantity of 0 has been rejected.
C4_Witness ==
    \E t \in DOMAIN tasks :
        /\ tasks[t].kind = "issue"
        /\ tasks[t].input = <<"0">>
        /\ tasks[t].pc = "rejected"

RenderNames == {"renderInventoryTable", "renderRepairsTable", "renderConsumablesTable",
                "renderIssuedTable", "drawCharts", "populateIssueSelect"}

UpToReload == <<"POST", "alert", "GET", "GET", "GET", "GET", "reloaded">>

\* C6: a form submission that passed validation does, in this order and once
\* each: the POST, the alert of the response, the four GETs of the reload and
\* its completion, the rendering, and last the reset of the form.
C6_SubmitOrder ==
    \A t \in DOMAIN tasks :
        (tasks[t].kind \in FormKinds /\ tasks[t].log # <<>> /\ tasks[t].log[1] = "POST") =>
            LET log == tasks[t].log
                n == Len(log)
            IN /\ \A i \in 1..n : i <= Len(UpToReload) => log[i] = UpToReload[i]
               /\ n > Len(UpToReload) =>
                    /\ n >= Len(UpToReload) + 2
                    /\ log[n] = "reset"
                    /\ \A i \in (Len(UpToReload) + 1)..(n - 1) : log[i] \in RenderNames
               /\ tasks[t].pc = "done" <=> n > Len(UpToReload)

\* C6 witness: an add-repair submission has run to its end.
C6_Witness ==
    \E t \in DOMAIN tasks :
        /\ tasks[t].kind = "addRepair"
        /\ tasks[t].input = "pdf"
        /\ tasks[t].pc = "done"

\* C7 as stated: when a submission's handler ends after its reload, every
\* view shows the Datasets as they now are.
C7_ViewsFollowReload ==
    [][\A t \in DOMAIN tasks :
          ( /\ tasks[t].kind \in FormKinds \cup {"bulkUpload"}
            /\ tasks[t].pc = "loading"
            /\ tasks'[t].pc = "done" )
          => \A v \in Views : dom'[v] = ViewOf(v, data')]_vars

\* C10 as stated: an issueConsumable command that was POSTed carries a qty
\* that is a number greater than zero.
C10_PostedQtyPositive ==
    \A t \in DOMAIN tasks :
        (tasks[t].kind = "issue" /\ tasks[t].log # <<>> /\ tasks[t].log[1] = "POST") =>
            /\ ~tasks[t].qty.nan
            /\ tasks[t].qty.n > 0

=============================================================================
